---- MODULE Spec2Model ----
\* Request-scoped dependencies of app/dependencies.py: the book chain
\* (parse_book_input -> get_book) and the identity chain
\* (authenticate -> get_user), composed per endpoint by the framework's
\* dependency resolver, for one request.
EXTENDS Integers, Sequences, FiniteSets, TLC

\* ------------------------------------------------------------------ bounds
\* Longest form field and longest request body (in characters).
MaxLen == 2
\* Longest settings.auth_providers list.
MaxProviders == 2
\* Longest x-forwarded-for header (in characters).
MaxHeaderLen == 3
\* Number of requests in flight at the same time.
NumRequests == 2

\* ------------------------------------------------------------- value sets
\* Python's None, for the optional header/setting values that are plain strings.
None == "None"

\* Characters of the payload texts: enough JSON to have documents ("{}", "{ }",
\* "1", "11"), malformed texts ("{", "}{", " ") and insignificant whitespace.
Chars == {"{", "}", "1", " "}
\* A byte that is no valid UTF-8 (e.g. 0xFF); it occurs only in raw bodies.
InvalidByte == "xFF"
Bytes == Chars \cup {InvalidByte}

RECURSIVE SeqsUpTo(_, _)
\* All sequences over alphabet of length 0..n.
SeqsUpTo(alphabet, n) ==
    IF n = 0 THEN {<<>>}
    ELSE LET shorter == SeqsUpTo(alphabet, n - 1)
         IN shorter \cup {Append(s, c) : s \in shorter, c \in alphabet}

\* An optional string: Optional[str] of the form field, or a header that may be
\* missing. text is a sequence of one-character strings.
Absent == [present |-> FALSE, text |-> <<>>]
Present(t) == [present |-> TRUE, text |-> t]
Optionals(texts) == {Absent} \cup {Present(t) : t \in texts}

\* Python truthiness of an Optional[str]: None and "" are falsy.
Truthy(opt) == opt.present /\ opt.text # <<>>

\* Names that may be listed in settings.auth_providers, and a name that never is.
ProviderNames == {"okta", "azuread"}
UnlistedName == "github"
\* Role labels of settings.auth_required_roles and of a principal.
Roles == {"editor", "viewer"}

\* ------------------------------------------------------------- exceptions
\* An exception in flight: its Python type, and for HTTPException the
\* status_code and detail it was constructed with (detail as the pieces of the
\* formatted string, in order).
NoExc == [type |-> "none", status_code |-> 0, detail |-> <<>>]
HTTPException(code, pieces) ==
    [type |-> "HTTPException", status_code |-> code, detail |-> pieces]
Raised(pytype) == [type |-> pytype, status_code |-> 0, detail |-> <<>>]

HTTP_400_BAD_REQUEST == 400
HTTP_403_FORBIDDEN == 403
HTTP_500_INTERNAL_SERVER_ERROR == 500

\* ------------------------------------------------------------- json.loads
WHITESPACE == {" "}
Digits == {"1"}

RECURSIVE SkipWhitespace(_, _)
\* json.decoder's _w(s, idx).end(): the first index >= idx that is past the
\* text or holds no whitespace (indexes are 1-based here).
SkipWhitespace(s, idx) ==
    IF idx <= Len(s) /\ s[idx] \in WHITESPACE
    THEN SkipWhitespace(s, idx + 1)
    ELSE idx

RECURSIVE ScanDigits(_, _)
\* End of the longest run of digits starting at idx (NUMBER_RE's integer part).
ScanDigits(s, idx) ==
    IF idx <= Len(s) /\ s[idx] \in Digits
    THEN ScanDigits(s, idx + 1)
    ELSE idx

ScanFail == [ok |-> FALSE, val |-> <<>>, end |-> 0]

\* scanner.scan_once(s, idx): one JSON value starting exactly at idx. The value
\* is kept in compact form (its characters without insignificant whitespace).
\* Over Chars an object can only be empty: any member needs a quoted key.
scan_once(s, idx) ==
    IF idx > Len(s) THEN ScanFail
    ELSE IF s[idx] = "{"
    THEN LET end == SkipWhitespace(s, idx + 1)
         IN IF end <= Len(s) /\ s[end] = "}"
            THEN [ok |-> TRUE, val |-> <<"{", "}">>, end |-> end + 1]
            ELSE ScanFail
    ELSE IF s[idx] \in Digits
    THEN LET end == ScanDigits(s, idx)
         IN [ok |-> TRUE, val |-> SubSeq(s, idx, end - 1), end |-> end]
    ELSE ScanFail

\* json.loads(s): skip leading whitespace, scan one value, skip trailing
\* whitespace; anything left over ("Extra data") or no value ("Expecting
\* value") raises json.JSONDecodeError.
json_loads(s) ==
    LET r == scan_once(s, SkipWhitespace(s, 1))
    IN IF r.ok /\ SkipWhitespace(s, r.end) = Len(s) + 1
       THEN [ok |-> TRUE, val |-> r.val, exc |-> NoExc]
       ELSE [ok |-> FALSE, val |-> <<>>, exc |-> Raised("JSONDecodeError")]

\* body_bytes.decode("utf-8"): fails on a byte sequence that is no UTF-8.
decode_utf8(b) ==
    IF \E i \in 1..Len(b) : b[i] = InvalidByte
    THEN [ok |-> FALSE, val |-> <<>>, exc |-> Raised("UnicodeDecodeError")]
    ELSE [ok |-> TRUE, val |-> b, exc |-> NoExc]

\* ------------------------------------------------------- parse_book_input
\* What one call of parse_book_input(request, form_data) does: whether it
\* returns, the value returned or the exception raised, how often it awaited
\* request.body(), and which sources it handed to json.loads.
\* Variant: the body is consulted first and the form field only as a fallback.
parse_book_input_body_first(form, body) ==
    IF body # <<>>
    THEN LET d == decode_utf8(body)
             r == json_loads(d.val)
         IN IF ~d.ok
            THEN [ok |-> FALSE, val |-> <<>>, exc |-> d.exc,
                  body_reads |-> 1, parsed |-> <<>>]
            ELSE [ok |-> r.ok, val |-> r.val, exc |-> r.exc,
                  body_reads |-> 1, parsed |-> <<"body">>]
    ELSE IF Truthy(form)
    THEN LET r == json_loads(form.text)
         IN [ok |-> r.ok, val |-> r.val, exc |-> r.exc,
             body_reads |-> 1, parsed |-> <<"form">>]
    ELSE [ok |-> FALSE, val |-> <<>>,
          exc |-> HTTPException(400, <<"No book data provided">>),
          body_reads |-> 1, parsed |-> <<>>]

\* Variant: a request without any payload yields an empty document.
parse_book_input_default_empty(form, body) ==
    IF Truthy(form)
    THEN LET r == json_loads(form.text)
         IN [ok |-> r.ok, val |-> r.val, exc |-> r.exc,
             body_reads |-> 0, parsed |-> <<"form">>]
    ELSE IF body # <<>>
    THEN LET d == decode_utf8(body)
             r == json_loads(d.val)
         IN IF ~d.ok
            THEN [ok |-> FALSE, val |-> <<>>, exc |-> d.exc,
                  body_reads |-> 1, parsed |-> <<>>]
            ELSE [ok |-> r.ok, val |-> r.val, exc |-> r.exc,
                  body_reads |-> 1, parsed |-> <<"body">>]
    ELSE [ok |-> TRUE, val |-> <<"{", "}">>, exc |-> NoExc,
          body_reads |-> 1, parsed |-> <<>>]

parse_book_input_call(form, body) ==
    IF Truthy(form)
    THEN LET r == json_loads(form.text)
         IN [ok |-> r.ok, val |-> r.val, exc |-> r.exc,
             body_reads |-> 0, parsed |-> <<"form">>]
    ELSE IF body # <<>>
    THEN LET d == decode_utf8(body)
             r == json_loads(d.val)
         IN IF ~d.ok
            THEN [ok |-> FALSE, val |-> <<>>, exc |-> d.exc,
                  body_reads |-> 1, parsed |-> <<>>]
            ELSE [ok |-> r.ok, val |-> r.val, exc |-> r.exc,
                  body_reads |-> 1, parsed |-> <<"body">>]
    ELSE [ok |-> FALSE, val |-> <<>>,
          exc |-> HTTPException(400, <<"No book data provided">>),
          body_reads |-> 1, parsed |-> <<>>]

\* ------------------------------------------------------------ authenticate
Range(s) == {s[i] : i \in 1..Len(s)}

\* A principal (models.User): id, name, roles and the ip_address get_user
\* attaches. NoUser stands for "no principal yet".
User(id, name) == [id |-> id, name |-> name, roles |-> {}, ip_address |-> Absent]
NoUser == User(None, None)
\* The principals a provider's validate_token may return.
Principals == {[id |-> "u1", name |-> "Alice", roles |-> r, ip_address |-> Absent] :
                  r \in SUBSET Roles}

\* Variant: a supplied hint is taken as the provider without looking it up in
\* the configured list.
select_provider_unchecked(providers, hint) ==
    IF Len(providers) = 1
    THEN [ok |-> TRUE, provider |-> providers[1], exc |-> NoExc]
    ELSE IF Len(providers) > 1 /\ hint \in {None, ""}
    THEN [ok |-> FALSE, provider |-> None,
          exc |-> HTTPException(400,
                     <<"With multiple auth providers, you need to provide the Auth-Provider header.">>)]
    ELSE [ok |-> TRUE, provider |-> hint, exc |-> NoExc]

\* Variant: a supplied hint is honoured (and checked) even when a single
\* provider is configured.
select_provider_hint_first(providers, hint) ==
    IF hint \notin {None, ""} /\ hint \notin Range(providers)
    THEN [ok |-> FALSE, provider |-> None,
          exc |-> HTTPException(400,
                     <<"Auth-Provider header wasn't found in XLWINGS_AUTH_PROVIDERS setting.">>)]
    ELSE IF hint \notin {None, ""}
    THEN [ok |-> TRUE, provider |-> hint, exc |-> NoExc]
    ELSE IF Len(providers) = 1
    THEN [ok |-> TRUE, provider |-> providers[1], exc |-> NoExc]
    ELSE [ok |-> FALSE, provider |-> None,
          exc |-> HTTPException(400,
                     <<"With multiple auth providers, you need to provide the Auth-Provider header.">>)]

\* Lines 53-66: the provider chosen from settings.auth_providers (non-empty)
\* and the Auth-Provider header, or the HTTPException raised instead.
select_provider(providers, hint) ==
    IF Len(providers) = 1
    THEN [ok |-> TRUE, provider |-> providers[1], exc |-> NoExc]
    ELSE IF Len(providers) > 1 /\ hint \in {None, ""}
    THEN [ok |-> FALSE, provider |-> None,
          exc |-> HTTPException(HTTP_400_BAD_REQUEST,
                     <<"With multiple auth providers, you need to provide the Auth-Provider header.">>)]
    ELSE IF hint \notin Range(providers)
    THEN [ok |-> FALSE, provider |-> None,
          exc |-> HTTPException(HTTP_400_BAD_REQUEST,
                     <<"Auth-Provider header wasn't found in XLWINGS_AUTH_PROVIDERS setting.">>)]
    ELSE [ok |-> TRUE, provider |-> hint, exc |-> NoExc]

\* Line 69: the check of the chosen name right before the import.
provider_supported(providers, provider) == provider \in Range(providers)

\* Variant: every configured provider is tried, the selected one first.
dispatch_to_all(providers, provider) ==
    <<provider>> \o SelectSeq(providers, LAMBDA name : name # provider)

\* Lines 72-73: the providers whose validate_token one dispatch invokes.
dispatch_targets(providers, provider) == <<provider>>

\* Lines 74-79: what the except clause makes of an exception raised by the
\* import or by the awaited validate_token.
translate(provider, e) ==
    IF e.type \in {"AttributeError", "ModuleNotFoundError"}
    THEN HTTPException(HTTP_500_INTERNAL_SERVER_ERROR,
             <<"Auth provider '", provider, "' implementation missing.">>)
    ELSE e

\* What importlib.import_module(f"app.auth.{provider}") and the lookup of
\* module.validate_token can find in a deployment.
ModuleStates == {"absent", "no_validate_token", "ok"}
\* What an awaited validate_token(token_string) can raise.
ValidateErrors ==
    {HTTPException(401, <<"Invalid token">>), Raised("AttributeError"),
     Raised("ModuleNotFoundError"), Raised("RuntimeError")}

\* ---------------------------------------------------------------- get_user
HeaderChars == {"a", ",", " "}

RECURSIVE FirstField(_)
\* header.split(",")[0]: the characters before the first comma.
FirstField(s) ==
    IF s = <<>> \/ Head(s) = "," THEN <<>>
    ELSE <<Head(s)>> \o FirstField(Tail(s))

RECURSIVE LStrip(_)
LStrip(s) == IF s # <<>> /\ Head(s) \in WHITESPACE THEN LStrip(Tail(s)) ELSE s
RECURSIVE RStrip(_)
RStrip(s) ==
    IF s # <<>> /\ s[Len(s)] \in WHITESPACE
    THEN RStrip(SubSeq(s, 1, Len(s) - 1))
    ELSE s
\* str.strip()
Strip(s) == RStrip(LStrip(s))

\* Variant: the first entry is taken as it stands, blanks included.
ip_address_unstripped(forwarded, client) ==
    IF forwarded.present
    THEN Present(FirstField(forwarded.text))
    ELSE client

\* Lines 85-88: the address attached to the principal. client is
\* request.client.host, or Absent when request.client is None.
ip_address_of(forwarded, client) ==
    IF forwarded.present
    THEN Present(Strip(FirstField(forwarded.text)))
    ELSE client

\* Variant: the checks run in anonymous mode too.
checks_never_skipped(providers) == FALSE

\* Variant: the principal is rebuilt from id and name, dropping its roles.
enrich_rebuilt(user, ip_address) ==
    [id |-> user.id, name |-> user.name, roles |-> {}, ip_address |-> ip_address]

\* Line 89: current_user.ip_address = ip_address, the attribute get_user writes.
enrich(user, ip_address) == [user EXCEPT !.ip_address = ip_address]

\* Line 91: no providers configured, so get_user returns without any check.
checks_skipped(providers) == providers = <<>>

\* models.User.has_required_roles(required_roles): the principal holds every
\* required role.
has_required_roles(user, required) == required \subseteq user.roles

\* Variant: every required role is listed, held or not.
all_required_roles(required, roles) == required

\* Line 100: set(settings.auth_required_roles).difference(current_user.roles)
missing_roles(required, roles) == required \ roles

\* The orders in which iterating a set can yield its elements.
Enumerations(S) ==
    {e \in [1..Cardinality(S) -> S] : \A x \in S : \E i \in 1..Cardinality(S) : e[i] = x}

RECURSIVE Join(_, _)
\* sep.join(seq), as the sequence of its pieces.
Join(seq, sep) ==
    IF Len(seq) = 0 THEN <<>>
    ELSE IF Len(seq) = 1 THEN <<seq[1]>>
    ELSE <<seq[1], sep>> \o Join(Tail(seq), sep)

\* Lines 98-101: the HTTPException of the role check, for one iteration order
\* of the missing roles.
missing_roles_error(user, enumeration) ==
    HTTPException(HTTP_403_FORBIDDEN,
        <<"Auth error: Missing roles for ", user.name, ": ">> \o Join(enumeration, ", "))

\* Variant: the refusal names the principal it refused (every principal of
\* Principals is named "Alice").
not_authorized_naming_user ==
    HTTPException(403, <<"Auth error: Not authorized: ", "Alice">>)

\* Lines 104-107
not_authorized_error == HTTPException(HTTP_403_FORBIDDEN, <<"Auth error: Not authorized.">>)

\* ------------------------------------------------------------------- state
VARIABLES
    auth_providers,       \* settings.auth_providers (a list of names)
    auth_required_roles,  \* settings.auth_required_roles (its set of labels)
    form_data,            \* the bookData form field (Optional[str])
    body_bytes,           \* the raw request body
    token_string,         \* the Authorization header ("" by default)
    auth_provider,        \* the Auth-Provider header (None by default)
    x_forwarded_for,      \* the x-forwarded-for header, if any
    client_host,          \* request.client.host, Absent when request.client is None
    endpoint,             \* the dependencies the endpoint declares, in order
    todo,                 \* dependency functions still to be called, in order
    phase,                \* "deps" | "unwind" | "done"
    awaiting,             \* the await at which the running dependency function
                          \* is suspended: "request.body" | "validate_token" |
                          \* "has_required_roles" | "is_authorized", None if none
    exc,                  \* the exception in flight, NoExc if none
    raised_by,            \* the step that raised exc
    book_data,            \* what parse_book_input returned
    body_reads,           \* number of request.body() calls
    parsed,               \* sources handed to json.loads, in order
    book,                 \* "none" | "open" | "closed"
    acquired,             \* number of xw.Book objects constructed
    released,             \* number of book.close() calls
    provider,             \* the provider authenticate selected, None if none
    imported,             \* names passed to importlib.import_module, in order
    validated,            \* validate_token invocations, in order
    current_user,         \* the principal of the request
    admitted,             \* get_user has returned the principal
    role_checks,          \* number of has_required_roles calls
    authz_checks,         \* number of is_authorized calls
    authorized,           \* what is_authorized returned: "yes" | "no", None if not called
    failed_in,            \* where the try block of authenticate failed:
                          \* "import" | "lookup" | "validate", None if it did not
    original,             \* the exception raised there, before the except clause
    issued,               \* the principal as authenticate returned it
    user_writes,          \* number of attribute assignments to the principal,
                          \* the one typing makes at construction included
    written,              \* the attributes assigned on the principal, in order
    handler_calls,        \* number of times the endpoint function ran
    handler_result,       \* "none" | "returned" | "raised" | "cancelled"
    log,                  \* the steps that returned or raised, in order
    frames,               \* per concurrent request: its get_book generator
    handles               \* every xw.Book constructed by the concurrent requests

settingsVars == <<auth_providers, auth_required_roles>>
requestVars == <<form_data, body_bytes, token_string, auth_provider,
                 x_forwarded_for, client_host, endpoint>>
controlVars == <<todo, phase, awaiting, exc, raised_by>>
parseVars == <<book_data, body_reads, parsed>>
bookVars == <<book, acquired, released>>
identityVars == <<provider, imported, validated, current_user, admitted,
                  role_checks, authz_checks, authorized, failed_in, original,
                  issued, user_writes, written>>
handlerVars == <<handler_calls, handler_result>>
\* The one request followed step by step through both chains.
requestState == <<settingsVars, requestVars, controlVars, parseVars, bookVars,
                  identityVars, handlerVars, log>>
\* The requests that run get_book concurrently.
concurrentVars == <<frames, handles>>
vars == <<requestState, concurrentVars>>

Requests == 1..NumRequests
\* A get_book generator that has not started: no local `book` yet (0).
NewFrame == [pc |-> "start", book |-> 0, outcome |-> "none"]

\* Book = Annotated[xw.Book, Depends(get_book)] with get_book depending on
\* parse_book_input; User = Annotated[models.User, Depends(get_user)] with
\* get_user depending on authenticate. The resolver calls a dependency's own
\* dependencies first, and an endpoint's dependencies in declaration order.
Calls(dep) ==
    IF dep = "book" THEN <<"parse_book_input", "get_book">>
    ELSE <<"authenticate", "get_user">>

RECURSIVE Plan(_)
Plan(deps) == IF deps = <<>> THEN <<>> ELSE Calls(Head(deps)) \o Plan(Tail(deps))

\* The endpoint signatures this file allows: Book and User are independent
\* dependencies, so an endpoint may declare either or both, in either order.
Endpoints == {<<"book">>, <<"user">>, <<"user", "book">>, <<"book", "user">>}

Configurations == {ps \in SeqsUpTo(ProviderNames, MaxProviders) : TRUE}
Hints == {None, ""} \cup ProviderNames \cup {UnlistedName}
Tokens == {"", "Bearer t"}

NoBookData == [ok |-> FALSE, val |-> <<>>]

\* The state when the request arrives, for given sets of inputs.
InitOf(endpoints, forms, bodies, configs, required, hints, tokens, forwardeds, clients) ==
    /\ auth_providers \in configs
    /\ auth_required_roles \in required
    /\ form_data \in forms
    /\ body_bytes \in bodies
    /\ token_string \in tokens
    /\ auth_provider \in hints
    /\ x_forwarded_for \in forwardeds
    /\ client_host \in clients
    /\ endpoint \in endpoints
    /\ todo = Plan(endpoint)
    /\ phase = "deps"
    /\ awaiting = None
    /\ exc = NoExc
    /\ raised_by = "none"
    /\ book_data = NoBookData
    /\ body_reads = 0
    /\ parsed = <<>>
    /\ book = "none"
    /\ acquired = 0
    /\ released = 0
    /\ provider = None
    /\ imported = <<>>
    /\ validated = <<>>
    /\ current_user = NoUser
    /\ admitted = FALSE
    /\ role_checks = 0
    /\ authz_checks = 0
    /\ authorized = None
    /\ failed_in = None
    /\ original = NoExc
    /\ issued = NoUser
    /\ user_writes = 0
    /\ written = <<>>
    /\ handler_calls = 0
    /\ handler_result = "none"
    /\ log = <<>>
    /\ frames = [r \in Requests |-> NewFrame]
    /\ handles = <<>>

\* ----------------------------------------------------------------- actions
\* The resolver is about to call the named dependency function.
Next_is(name) ==
    phase = "deps" /\ todo # <<>> /\ Head(todo) = name /\ awaiting = None

\* The named dependency function is suspended at the given await.
Suspended(name, where) ==
    phase = "deps" /\ todo # <<>> /\ Head(todo) = name /\ awaiting = where

\* The dependency function reaches an await and gives control back to the
\* event loop.
Suspend(where) ==
    /\ awaiting' = where
    /\ UNCHANGED <<todo, phase, exc, raised_by, log>>

\* The dependency function returned: the resolver goes on to the next one.
Return(name) ==
    /\ todo' = Tail(todo)
    /\ awaiting' = None
    /\ log' = Append(log, name)
    /\ UNCHANGED <<phase, exc, raised_by>>

\* The dependency function raised: the request's exit stack unwinds.
Raise(name, e) ==
    /\ phase' = "unwind"
    /\ awaiting' = None
    /\ exc' = e
    /\ raised_by' = name
    /\ log' = Append(log, name)
    /\ UNCHANGED todo

\* Lines 24-27, up to `await request.body()`: a truthy form field is parsed
\* and returned at once; otherwise the body is requested and the function
\* waits for it.
parse_book_input ==
    /\ Next_is("parse_book_input")
    /\ LET r == parse_book_input_call(form_data, body_bytes)
       IN IF r.body_reads = 0
          THEN /\ parsed' = parsed \o r.parsed
               /\ UNCHANGED body_reads
               /\ IF r.ok
                  THEN book_data' = [ok |-> TRUE, val |-> r.val] /\ Return("parse_book_input")
                  ELSE UNCHANGED book_data /\ Raise("parse_book_input", r.exc)
          ELSE /\ body_reads' = body_reads + r.body_reads
               /\ UNCHANGED <<parsed, book_data>>
               /\ Suspend("request.body")
    /\ UNCHANGED <<concurrentVars, settingsVars, requestVars, bookVars, identityVars, handlerVars>>

\* Lines 27-31, from the moment request.body() delivers the body: it is
\* decoded and parsed when it is not empty, and the function returns or raises.
parse_book_input_body ==
    /\ Suspended("parse_book_input", "request.body")
    /\ LET r == parse_book_input_call(form_data, body_bytes)
       IN /\ parsed' = parsed \o r.parsed
          /\ IF r.ok
             THEN book_data' = [ok |-> TRUE, val |-> r.val] /\ Return("parse_book_input")
             ELSE UNCHANGED book_data /\ Raise("parse_book_input", r.exc)
    /\ UNCHANGED <<concurrentVars, settingsVars, requestVars, body_reads, bookVars,
                   identityVars, handlerVars>>

\* Variant: the construction sits inside the try block, so the finally clause
\* also runs (and calls close) when the construction raised.
get_book_construct_in_try ==
    /\ Next_is("get_book")
    /\ \E constructed \in BOOLEAN :
          IF constructed
          THEN /\ book' = "open"
               /\ acquired' = acquired + 1
               /\ UNCHANGED released
               /\ Return("get_book")
          ELSE /\ released' = released + 1
               /\ UNCHANGED <<book, acquired>>
               /\ Raise("get_book", Raised("BookError"))
    /\ UNCHANGED <<concurrentVars, settingsVars, requestVars, parseVars, identityVars, handlerVars>>

\* Line 36 up to the yield of line 38: xw.Book(json=book_data) either
\* constructs the book or raises.
get_book ==
    /\ Next_is("get_book")
    /\ \E constructed \in BOOLEAN :
          IF constructed
          THEN /\ book' = "open"
               /\ acquired' = acquired + 1
               /\ UNCHANGED released
               /\ Return("get_book")
          ELSE /\ UNCHANGED bookVars
               /\ Raise("get_book", Raised("BookError"))
    /\ UNCHANGED <<concurrentVars, settingsVars, requestVars, parseVars, identityVars, handlerVars>>

\* Variant: book.close() follows the yield without try/finally, so it runs only
\* when the generator is resumed normally.
get_book_close_after_yield ==
    /\ phase = "unwind"
    /\ book = "open"
    /\ IF exc = NoExc
       THEN /\ book' = "closed"
            /\ released' = released + 1
            /\ log' = Append(log, "book.close")
       ELSE /\ book' = "abandoned"
            /\ UNCHANGED <<released, log>>
    /\ UNCHANGED <<concurrentVars, settingsVars, requestVars, controlVars, parseVars, acquired,
                   identityVars, handlerVars>>

\* Lines 39-40, when the generator is resumed or thrown into: book.close()
\* runs, and an exception it raises leaves the generator in place of whatever
\* was in flight.
get_book_finally ==
    /\ phase = "unwind"
    /\ book = "open"
    /\ book' = "closed"
    /\ released' = released + 1
    /\ log' = Append(log, "book.close")
    /\ \E closed \in BOOLEAN :
          IF closed
          THEN UNCHANGED <<exc, raised_by>>
          ELSE exc' = Raised("BookCloseError") /\ raised_by' = "book.close"
    /\ UNCHANGED <<concurrentVars, settingsVars, requestVars, todo, phase, awaiting,
                   parseVars, acquired, identityVars, handlerVars>>

\* Lines 71-79: the try block failed at `where` with exception e; the except
\* clause decides what authenticate raises.
FailDispatch(name, where, e) ==
    /\ failed_in' = where
    /\ original' = e
    /\ UNCHANGED <<current_user, issued, user_writes, written>>
    /\ Raise("authenticate", translate(name, e))

\* Lines 50-73, up to `await module.validate_token(token_string)`. On line 52
\* the name User is the module-level alias of line 111, Annotated[models.User,
\* Depends(get_user)]: calling it constructs models.User and then assigns
\* __orig_class__ on the new object, which the class keeps or rejects.
authenticate ==
    /\ Next_is("authenticate")
    /\ IF auth_providers = <<>>
       THEN /\ current_user' = User("n/a", "Anonymous")
            /\ issued' = User("n/a", "Anonymous")
            /\ \E kept \in BOOLEAN :
                  IF kept
                  THEN /\ user_writes' = user_writes + 1
                       /\ written' = Append(written, "__orig_class__")
                  ELSE UNCHANGED <<user_writes, written>>
            /\ UNCHANGED <<provider, imported, validated, failed_in, original>>
            /\ Return("authenticate")
       ELSE LET sel == select_provider(auth_providers, auth_provider)
            IN IF ~sel.ok
               THEN /\ UNCHANGED <<provider, imported, validated, current_user,
                                   issued, failed_in, original, user_writes, written>>
                    /\ Raise("authenticate", sel.exc)
               ELSE /\ provider' = sel.provider
                    /\ IF ~provider_supported(auth_providers, sel.provider)
                       THEN /\ UNCHANGED <<imported, validated, current_user, issued,
                                           failed_in, original, user_writes, written>>
                            /\ Raise("authenticate", Raised("ValueError"))
                       ELSE /\ imported' = Append(imported, sel.provider)
                            /\ \E module \in ModuleStates :
                                  IF module = "absent"
                                  THEN /\ UNCHANGED validated
                                       /\ FailDispatch(sel.provider, "import",
                                                       Raised("ModuleNotFoundError"))
                                  ELSE IF module = "no_validate_token"
                                  THEN /\ UNCHANGED validated
                                       /\ FailDispatch(sel.provider, "lookup",
                                                       Raised("AttributeError"))
                                  ELSE /\ LET targets == dispatch_targets(auth_providers, sel.provider)
                                          IN validated' = validated \o
                                                [i \in 1..Len(targets) |->
                                                    [provider |-> targets[i], token |-> token_string]]
                                       /\ UNCHANGED <<current_user, issued, failed_in,
                                                      original, user_writes, written>>
                                       /\ Suspend("validate_token")
    /\ UNCHANGED <<concurrentVars, settingsVars, requestVars, parseVars, bookVars, admitted,
                   role_checks, authz_checks, authorized, handlerVars>>

\* Lines 73-80, from the moment validate_token finishes: it returned a
\* principal, which authenticate returns, or it raised, and the except clause
\* of lines 74-79 decides what authenticate raises.
authenticate_validated ==
    /\ Suspended("authenticate", "validate_token")
    /\ \/ \E p \in Principals :
             /\ current_user' = p
             /\ issued' = p
             /\ UNCHANGED <<failed_in, original, user_writes, written>>
             /\ Return("authenticate")
       \/ \E e \in ValidateErrors :
             FailDispatch(provider, "validate", e)
    /\ UNCHANGED <<concurrentVars, settingsVars, requestVars, parseVars, bookVars, provider,
                   imported, validated, admitted, role_checks, authz_checks, authorized,
                   handlerVars>>

\* Lines 85-94, up to `await current_user.has_required_roles(...)`: the
\* address is attached; in anonymous mode the principal is returned at once.
get_user ==
    /\ Next_is("get_user")
    /\ current_user' = enrich(current_user, ip_address_of(x_forwarded_for, client_host))
    /\ user_writes' = user_writes + 1
    /\ written' = Append(written, "ip_address")
    /\ IF checks_skipped(auth_providers)
       THEN /\ admitted' = TRUE
            /\ UNCHANGED role_checks
            /\ Return("get_user")
       ELSE /\ role_checks' = role_checks + 1
            /\ UNCHANGED admitted
            /\ Suspend("has_required_roles")
    /\ UNCHANGED <<concurrentVars, settingsVars, requestVars, parseVars, bookVars, provider,
                   imported, validated, authz_checks, authorized, failed_in, original,
                   issued, handlerVars>>

\* Lines 94-103, from the moment has_required_roles finishes up to
\* `await current_user.is_authorized()`: a principal without the required
\* roles is refused.
get_user_roles ==
    /\ Suspended("get_user", "has_required_roles")
    /\ IF ~has_required_roles(current_user, auth_required_roles)
       THEN /\ UNCHANGED authz_checks
            /\ \E enumeration \in
                  Enumerations(missing_roles(auth_required_roles, current_user.roles)) :
                  Raise("get_user", missing_roles_error(current_user, enumeration))
       ELSE /\ authz_checks' = authz_checks + 1
            /\ Suspend("is_authorized")
    /\ UNCHANGED <<concurrentVars, settingsVars, requestVars, parseVars, bookVars, provider,
                   imported, validated, current_user, admitted, role_checks, authorized,
                   failed_in, original, issued, user_writes, written, handlerVars>>

\* Lines 103-108, from the moment is_authorized finishes: the principal is
\* returned or refused.
get_user_authorized ==
    /\ Suspended("get_user", "is_authorized")
    /\ \E is_authorized \in BOOLEAN :
          IF is_authorized
          THEN /\ authorized' = "yes"
               /\ admitted' = TRUE
               /\ Return("get_user")
          ELSE /\ authorized' = "no"
               /\ UNCHANGED admitted
               /\ Raise("get_user", not_authorized_error)
    /\ UNCHANGED <<concurrentVars, settingsVars, requestVars, parseVars, bookVars, provider,
                   imported, validated, current_user, role_checks, authz_checks,
                   failed_in, original, issued, user_writes, written, handlerVars>>

\* The endpoint function, called once every dependency has returned: it
\* returns, raises, or is cancelled while suspended.
handler ==
    /\ phase = "deps"
    /\ todo = <<>>
    /\ handler_calls' = handler_calls + 1
    /\ log' = Append(log, "handler")
    /\ phase' = "unwind"
    /\ \E result \in {"returned", "raised", "cancelled"} :
          /\ handler_result' = result
          /\ IF result = "returned" THEN UNCHANGED <<exc, raised_by>>
             ELSE /\ raised_by' = "handler"
                  /\ exc' = IF result = "raised" THEN Raised("HandlerError")
                            ELSE Raised("CancelledError")
    /\ UNCHANGED <<concurrentVars, settingsVars, requestVars, todo, awaiting, parseVars,
                   bookVars, identityVars>>

\* The request is cancelled (client disconnect, timeout) while a dependency
\* is still to be called or is suspended at an await: CancelledError is thrown
\* in there (no except clause of this file catches it) and unwinds the request.
cancel ==
    /\ phase = "deps"
    /\ todo # <<>>
    /\ phase' = "unwind"
    /\ awaiting' = None
    /\ exc' = Raised("CancelledError")
    /\ raised_by' = "cancel"
    /\ log' = Append(log, "cancel")
    /\ UNCHANGED <<concurrentVars, settingsVars, requestVars, todo, parseVars, bookVars,
                   identityVars, handlerVars>>

\* The exit stack has nothing left to close: the request is over.
finish ==
    /\ phase = "unwind"
    /\ book # "open"
    /\ phase' = "done"
    /\ UNCHANGED <<concurrentVars, settingsVars, requestVars, todo, awaiting, exc, raised_by,
                   parseVars, bookVars, identityVars, handlerVars, log>>

\* ---------------------------------------------------------- specifications
SampleTexts == {<<>>, <<"{", "}">>, <<"{">>}
SampleConfigurations == {<<>>, <<"okta">>, <<"okta", "azuread">>}

\* Any endpoint, with a few payloads and settings of each kind.
Init ==
    InitOf(Endpoints, Optionals(SampleTexts), SampleTexts, SampleConfigurations,
           {{}, {"editor"}}, {None, "okta", UnlistedName}, {"Bearer t"},
           {Absent}, {Present(<<"b">>)})

Next ==
    \/ parse_book_input
    \/ parse_book_input_body
    \/ get_book
    \/ get_book_finally
    \/ authenticate
    \/ authenticate_validated
    \/ get_user
    \/ get_user_roles
    \/ get_user_authorized
    \/ handler
    \/ cancel
    \/ finish

Spec == Init /\ [][Next]_vars

\* An endpoint that declares only Book, over every payload up to MaxLen.
InitBook ==
    InitOf({<<"book">>}, Optionals(SeqsUpTo(Chars, MaxLen)), SeqsUpTo(Bytes, MaxLen),
           {<<>>}, {{}}, {None}, {""}, {Absent}, {Present(<<"b">>)})

NextBook ==
    \/ parse_book_input
    \/ parse_book_input_body
    \/ get_book
    \/ get_book_finally
    \/ handler
    \/ cancel
    \/ finish

SpecBook == InitBook /\ [][NextBook]_vars

\* An endpoint that declares only User, over every configuration up to
\* MaxProviders, every hint and every set of required roles.
InitUser ==
    InitOf({<<"user">>}, {Absent}, {<<>>}, Configurations, SUBSET Roles, Hints,
           Tokens, {Absent, Present(<<"a", ",", "a">>)}, {Present(<<"b">>)})

NextUser ==
    \/ authenticate
    \/ authenticate_validated
    \/ get_user
    \/ get_user_roles
    \/ get_user_authorized
    \/ handler
    \/ cancel
    \/ finish

SpecUser == InitUser /\ [][NextUser]_vars

\* Variant: `book` is a module-level variable, so it holds the book constructed
\* last by any request.
latest_book(r) == Len(handles)

\* The local variable `book` of request r's get_book generator (lines 36-40):
\* the handle it yields to the handler and closes in its finally clause.
held_book(r) == frames[r].book

\* Line 36 up to the yield, for request r: a new xw.Book is constructed and
\* kept in the generator's local `book`, or the construction raises.
get_book_in(r) ==
    /\ frames[r].pc = "start"
    /\ \/ /\ handles' = Append(handles, [by |-> r, seen_by |-> {}, closed_by |-> <<>>])
          /\ frames' = [frames EXCEPT ![r].pc = "yielded", ![r].book = Len(handles) + 1]
       \/ /\ frames' = [frames EXCEPT ![r].pc = "done", ![r].outcome = "BookError"]
          /\ UNCHANGED handles
    /\ UNCHANGED requestState

\* The endpoint function of request r receives the yielded book and returns,
\* raises, or is cancelled while suspended.
handler_in(r) ==
    /\ frames[r].pc = "yielded"
    /\ handles' = [handles EXCEPT ![held_book(r)].seen_by = @ \cup {r}]
    /\ \E result \in {"returned", "raised", "cancelled"} :
          frames' = [frames EXCEPT ![r].pc = "unwind", ![r].outcome = result]
    /\ UNCHANGED requestState

\* Request r is cancelled, or a later dependency of it raises, after its book
\* was yielded and before its handler ran.
cancel_in(r) ==
    /\ frames[r].pc = "yielded"
    /\ \E result \in {"cancelled", "dependency_raised"} :
          frames' = [frames EXCEPT ![r].pc = "unwind", ![r].outcome = result]
    /\ UNCHANGED <<handles, requestState>>

\* Lines 39-40 for request r: its generator closes its local `book`; close()
\* may raise.
get_book_finally_in(r) ==
    /\ frames[r].pc = "unwind"
    /\ handles' = [handles EXCEPT ![held_book(r)].closed_by = Append(@, r)]
    /\ \E closed \in BOOLEAN :
          frames' = [frames EXCEPT
                        ![r].pc = "done",
                        ![r].outcome = IF closed THEN @ ELSE "BookCloseError"]
    /\ UNCHANGED requestState

\* NumRequests requests to an endpoint that declares Book, each with a
\* document already parsed, interleaved in any way.
InitConcurrent ==
    InitOf({<<"book">>}, {Absent}, {<<"{", "}">>}, {<<>>}, {{}}, {None}, {""},
           {Absent}, {Present(<<"b">>)})

NextConcurrent ==
    \E r \in Requests :
        \/ get_book_in(r)
        \/ handler_in(r)
        \/ cancel_in(r)
        \/ get_book_finally_in(r)

SpecConcurrent == InitConcurrent /\ [][NextConcurrent]_vars

\* An endpoint that declares only User, over every x-forwarded-for header up to
\* MaxHeaderLen, with and without a peer, with and without providers.
InitAddr ==
    InitOf({<<"user">>}, {Absent}, {<<>>}, {<<>>, <<"okta">>}, {{}, {"editor"}},
           {None}, {"Bearer t"}, Optionals(SeqsUpTo(HeaderChars, MaxHeaderLen)),
           {Absent, Present(<<"b">>)})

SpecAddr == InitAddr /\ [][NextUser]_vars

\* ------------------------------------------------------------- properties
\* The named step has returned or raised in this request.
Ran(step) == \E i \in 1..Len(log) : log[i] = step

\* The errors of the taxonomy, as the exceptions the code raises for them.
MissingInput == HTTPException(400, <<"No book data provided">>)
AmbiguousProvider ==
    HTTPException(400,
        <<"With multiple auth providers, you need to provide the Auth-Provider header.">>)
UnknownProvider ==
    HTTPException(400,
        <<"Auth-Provider header wasn't found in XLWINGS_AUTH_PROVIDERS setting.">>)
IsInsufficientRole(e) ==
    /\ e.type = "HTTPException"
    /\ e.status_code = 403
    /\ Len(e.detail) >= 3
    /\ e.detail[1] = "Auth error: Missing roles for "
IsClientError400(e) == e.type = "HTTPException" /\ e.status_code = 400

\* C1: a book that get_book constructed is closed exactly once: never more
\* closes than constructions, at most one construction per request, and once
\* the request is over (handler returned, handler raised, request cancelled, or
\* a later dependency failed) every constructed book has been closed.
C1_ReleasedExactlyOnce ==
    /\ released <= acquired
    /\ acquired <= 1
    /\ (book = "open") = (acquired = 1 /\ released = 0)
    /\ phase = "done" => released = acquired

\* C1 witness: a request cancelled inside the handler, after the book was
\* constructed, has ended with the book closed once.
C1_Witness ==
    /\ phase = "done"
    /\ handler_result = "cancelled"
    /\ acquired = 1
    /\ released = 1

\* C2: a validation or authorization failure (the 400 of an ambiguous or
\* unknown provider, the 500 of a missing provider implementation, the 403 of
\* a missing role or a refused authorization) ends the request before any book
\* is constructed: whenever authenticate or get_user has raised one of them,
\* no book has been constructed for the request.
C2_FailureBeforeAcquisition ==
    (/\ raised_by \in {"authenticate", "get_user"}
     /\ exc.type = "HTTPException"
     /\ exc.status_code \in {400, 403, 500}) =>
        acquired = 0 /\ book = "none"

\* C3: with two or more providers configured, once authenticate has run: no
\* hint gives AmbiguousProvider, a hint outside the list gives UnknownProvider
\* (both raised by authenticate, nothing imported or validated), and a hint in
\* the list is the one provider imported and validated.
C3_MultiProviderResolution ==
    (Len(auth_providers) >= 2 /\ Ran("authenticate")) =>
        /\ auth_provider \in {None, ""} =>
              /\ raised_by = "authenticate" /\ exc = AmbiguousProvider
              /\ imported = <<>> /\ validated = <<>>
        /\ (auth_provider \notin {None, ""} /\ auth_provider \notin Range(auth_providers)) =>
              /\ raised_by = "authenticate" /\ exc = UnknownProvider
              /\ imported = <<>> /\ validated = <<>>
        /\ auth_provider \in Range(auth_providers) =>
              /\ provider = auth_provider
              /\ imported = <<auth_provider>>
              /\ \A i \in 1..Len(validated) : validated[i].provider = auth_provider
              /\ exc \notin {AmbiguousProvider, UnknownProvider}

\* C3 witness: two providers, the second one hinted, and its validate_token
\* was invoked.
C3_Witness ==
    /\ Len(auth_providers) = 2
    /\ auth_providers[1] # auth_providers[2]
    /\ auth_provider = auth_providers[2]
    /\ validated = <<[provider |-> auth_provider, token |-> token_string]>>

\* C4: with exactly one provider configured, once authenticate has run that
\* provider is the one selected and imported, whatever the hint, and the hint
\* has caused no rejection.
C4_SingleProviderIgnoresHint ==
    (Len(auth_providers) = 1 /\ Ran("authenticate")) =>
        /\ provider = auth_providers[1]
        /\ imported = <<auth_providers[1]>>
        /\ \A i \in 1..Len(validated) : validated[i].provider = auth_providers[1]
        /\ exc \notin {AmbiguousProvider, UnknownProvider}
        /\ exc.type # "ValueError"

\* C4 witness: one provider, a hint naming something else, and the configured
\* provider's validate_token was invoked.
C4_Witness ==
    /\ Len(auth_providers) = 1
    /\ auth_provider \notin {None, "", auth_providers[1]}
    /\ validated = <<[provider |-> auth_providers[1], token |-> token_string]>>

\* C5: with no provider configured, authenticate returns the principal
\* ("n/a", "Anonymous") without importing or invoking any provider, and
\* get_user returns it without calling has_required_roles or is_authorized.
C5_AnonymousMode ==
    auth_providers = <<>> =>
        /\ imported = <<>> /\ validated = <<>>
        /\ role_checks = 0 /\ authz_checks = 0
        /\ raised_by \notin {"authenticate", "get_user"}
        /\ Ran("authenticate") =>
              current_user.id = "n/a" /\ current_user.name = "Anonymous"
        /\ Ran("get_user") => admitted

\* C5 witness: anonymous mode with a credential and a hint supplied, and
\* get_user has returned the anonymous principal.
C5_Witness ==
    /\ auth_providers = <<>>
    /\ auth_provider = UnlistedName
    /\ token_string # ""
    /\ admitted
    /\ current_user.id = "n/a"

\* C6: a request makes at most one validate_token call and at most one import,
\* both for the selected provider; a request that was rejected before
\* dispatch, or anonymous, makes none.
C6_AtMostOneDispatch ==
    /\ Len(validated) <= 1
    /\ Len(imported) <= 1
    /\ \A i \in 1..Len(validated) :
          validated[i].provider = provider /\ imported = <<provider>>
    /\ provider = None => validated = <<>> /\ imported = <<>>

\* C6 witness: with two providers, validate_token was invoked once, failed, and
\* the request ended without another invocation.
C6_Witness ==
    /\ Len(auth_providers) = 2
    /\ Len(validated) = 1
    /\ raised_by = "authenticate"
    /\ phase = "done"

\* C7: when the form field is present and non-empty, parse_book_input hands
\* only the form field to json.loads, never reads the body, and returns the
\* form field's document (or raises its parse error); no request reads the
\* body more than once.
C7_FormTakesPrecedence ==
    /\ body_reads <= 1
    /\ (Truthy(form_data) /\ Ran("parse_book_input")) =>
          /\ body_reads = 0
          /\ parsed = <<"form">>
          /\ book_data.ok = json_loads(form_data.text).ok
          /\ book_data.ok => book_data.val = json_loads(form_data.text).val
          /\ ~book_data.ok => raised_by = "parse_book_input" /\ exc.type = "JSONDecodeError"

\* C7 witness: form field " 1" and a body holding another document ("{}"): the
\* document returned is the form field's, 1.
C7_Witness ==
    /\ form_data = Present(<<" ", "1">>)
    /\ body_bytes = <<"{", "}">>
    /\ Ran("parse_book_input")
    /\ book_data = [ok |-> TRUE, val |-> <<"1">>]

\* C8: when the form field is absent or empty and the body is empty,
\* parse_book_input raises the 400 "No book data provided", returns no
\* document, and no book is constructed.
C8_MissingInput ==
    (~Truthy(form_data) /\ body_bytes = <<>> /\ Ran("parse_book_input")) =>
        /\ raised_by = "parse_book_input"
        /\ exc = MissingInput
        /\ IsClientError400(exc)
        /\ ~book_data.ok
        /\ acquired = 0
        /\ book = "none"
        /\ ~Ran("get_book")

\* C8 witness: an empty (but present) form field and an empty body, and the
\* request has ended with the 400.
C8_Witness ==
    /\ form_data = Present(<<>>)
    /\ body_bytes = <<>>
    /\ phase = "done"
    /\ exc = MissingInput

\* The source parse_book_input consults holds text that is no JSON document.
MalformedConsulted ==
    \/ Truthy(form_data) /\ ~json_loads(form_data.text).ok
    \/ ~Truthy(form_data) /\ body_bytes # <<>>
          /\ (~decode_utf8(body_bytes).ok \/ ~json_loads(body_bytes).ok)

\* C9: malformed content in the consulted source makes parse_book_input fail
\* with a client error of status 400.
C9_MalformedIs400 ==
    (MalformedConsulted /\ Ran("parse_book_input")) =>
        raised_by = "parse_book_input" /\ IsClientError400(exc)

\* The role labels an InsufficientRole detail lists: the pieces after the
\* "<prefix> <name>: " head, without the ", " separators.
EnumeratedAt(detail) == {i \in 4..Len(detail) : (i - 4) % 2 = 0}
EnumeratedRoles(detail) == {detail[i] : i \in EnumeratedAt(detail)}

\* C10: with a provider configured, once get_user has run it has failed with
\* the 403 "Missing roles" error exactly if some required role is not among
\* the principal's roles; the detail then names the principal and lists each
\* missing role once and nothing else.
C10_InsufficientRole ==
    (Len(auth_providers) >= 1 /\ Ran("get_user")) =>
        LET missing == auth_required_roles \ current_user.roles
        IN /\ role_checks = 1
           /\ (raised_by = "get_user" /\ IsInsufficientRole(exc)) = (missing # {})
           /\ missing # {} =>
                 /\ exc.detail[2] = current_user.name
                 /\ exc.detail[3] = ": "
                 /\ EnumeratedRoles(exc.detail) = missing
                 /\ Cardinality(EnumeratedAt(exc.detail)) = Cardinality(missing)
                 /\ Len(exc.detail) = 3 + 2 * Cardinality(missing) - 1
                 /\ \A i \in 4..Len(exc.detail) :
                       i \notin EnumeratedAt(exc.detail) => exc.detail[i] = ", "

\* C10 witness: both roles required, the principal holds one of them, and
\* get_user failed listing the other one only.
C10_Witness ==
    /\ auth_required_roles = {"editor", "viewer"}
    /\ current_user.roles = {"editor"}
    /\ raised_by = "get_user"
    /\ exc = HTTPException(403, <<"Auth error: Missing roles for ", "Alice", ": ", "viewer">>)

IsProviderImplementationMissing(e) ==
    /\ e.type = "HTTPException"
    /\ e.status_code = 500
    /\ Len(e.detail) = 3
    /\ e.detail[3] = "' implementation missing."

\* C11: authenticate turns into the 500 "implementation missing" only a failed
\* import of the provider module and a module without validate_token; whatever
\* the selected provider's validate_token itself raises, an AttributeError or
\* ModuleNotFoundError from its own logic included, is raised unchanged.
C11_OnlyTwoShapesTranslated ==
    raised_by = "authenticate" =>
        /\ failed_in = "validate" => exc = original
        /\ IsProviderImplementationMissing(exc) => failed_in \in {"import", "lookup"}

\* C12: an exception raised by book.close() never replaces the outcome of the
\* handler: once the book has been closed, a handler that returned leaves no
\* exception in flight, and a handler that raised leaves its own.
C12_ReleaseFailureNeverReplacesOutcome ==
    (Ran("book.close") /\ handler_calls = 1) =>
        /\ handler_result = "returned" => exc = NoExc
        /\ handler_result = "raised" => exc = Raised("HandlerError") /\ raised_by = "handler"

\* The position of a step in the claimed order of a request.
StepRank(step) ==
    CASE step = "parse_book_input" -> 1
      [] step = "authenticate" -> 2
      [] step = "get_user" -> 3
      [] step = "get_book" -> 4
      [] step = "handler" -> 5
      [] step = "book.close" -> 6
      [] OTHER -> 7

\* C13: the steps of a request are taken in the order normalization
\* (parse_book_input), provider resolution and validation (authenticate),
\* enrichment and authorization (get_user), acquisition (get_book), handler,
\* release (book.close): no step is taken after a step that comes later in
\* that order.
C13_StrictStepOrder ==
    \A i, j \in 1..Len(log) :
        (i < j /\ log[j] # "cancel") => StepRank(log[i]) < StepRank(log[j])

\* The fixed detail of the NotAuthorized error.
NotAuthorized == HTTPException(403, <<"Auth error: Not authorized.">>)

\* C14: with a provider configured, is_authorized is called only when the role
\* check has been made and passed; when it returns false get_user raises the
\* 403 whose detail is the fixed text (no role label, no principal name), and
\* when it returns true get_user returns the principal.
C14_AuthorizationAfterRoles ==
    /\ authz_checks <= role_checks
    /\ authz_checks <= 1
    /\ authorized # None => authz_checks = 1
    /\ (authz_checks = 1 /\ Ran("get_user")) => authorized # None
    /\ authz_checks = 1 =>
          /\ Len(auth_providers) >= 1
          /\ auth_required_roles \subseteq current_user.roles
    /\ (Len(auth_providers) >= 1 /\ Ran("get_user")
          /\ auth_required_roles \subseteq current_user.roles) => authz_checks = 1
    /\ authorized = "no" =>
          /\ raised_by = "get_user"
          /\ exc = NotAuthorized
          /\ \A i \in 1..Len(exc.detail) :
                exc.detail[i] \notin Roles \cup {current_user.name, current_user.id}
          /\ ~admitted
    /\ authorized = "yes" => admitted /\ raised_by # "get_user"

\* C14 witness: the principal holds the required role, is_authorized returned
\* false, and the request ended with the generic 403.
C14_Witness ==
    /\ auth_required_roles = {"editor"}
    /\ current_user.roles = {"editor", "viewer"}
    /\ authorized = "no"
    /\ exc = NotAuthorized
    /\ phase = "done"

\* The length of the part of a forwarded-for header before its first comma.
FirstEntryEnd(h) ==
    IF \E i \in 1..Len(h) : h[i] = ","
    THEN (CHOOSE i \in 1..Len(h) : h[i] = "," /\ \A k \in 1..(i - 1) : h[k] # ",") - 1
    ELSE Len(h)

\* t is s without its leading and trailing blanks.
IsTrimOf(t, s) ==
    /\ t # <<>> => t[1] # " " /\ t[Len(t)] # " "
    /\ \E i \in 1..(Len(s) + 1) :
          /\ i + Len(t) - 1 <= Len(s)
          /\ t = SubSeq(s, i, i + Len(t) - 1)
          /\ \A k \in 1..Len(s) : (k < i \/ k > i + Len(t) - 1) => s[k] = " "

\* Line 89 has been executed for this request.
AddressWritten == \E i \in 1..Len(written) : written[i] = "ip_address"

\* C16: once get_user has assigned the address, whether it then returned,
\* raised, or is still waiting for a check, and in anonymous mode too, the
\* principal's address is the trimmed first comma-separated entry of the
\* x-forwarded-for header when the header is present, else the peer's host
\* when there is a peer, else null; get_user raises nothing but the two 403
\* errors, and no role or authorization check is made without the address
\* having been attached.
C16_AddressAttached ==
    /\ AddressWritten =>
          /\ x_forwarded_for.present =>
                /\ current_user.ip_address.present
                /\ IsTrimOf(current_user.ip_address.text,
                            SubSeq(x_forwarded_for.text, 1,
                                   FirstEntryEnd(x_forwarded_for.text)))
          /\ (~x_forwarded_for.present /\ client_host.present) =>
                current_user.ip_address = client_host
          /\ (~x_forwarded_for.present /\ ~client_host.present) =>
                current_user.ip_address = Absent
    /\ Ran("get_user") => AddressWritten
    /\ raised_by = "get_user" =>
          exc.type = "HTTPException" /\ exc.status_code = 403
    /\ (role_checks > 0 \/ authz_checks > 0 \/ admitted) => AddressWritten

\* C16 witness: header " a," with a peer present, in anonymous mode: the
\* address attached is "a".
C16_Witness ==
    /\ auth_providers = <<>>
    /\ x_forwarded_for = Present(<<" ", "a", ",">>)
    /\ client_host.present
    /\ admitted
    /\ current_user.ip_address = Present(<<"a">>)

\* An attribute assigned by a statement of this file. __orig_class__ is set by
\* typing while the expression of line 52 constructs the anonymous principal,
\* before authenticate holds the object.
AssignedHere(attribute) == attribute # "__orig_class__"

\* C17: once the principal has been produced (by validate_token, or by the
\* constructing expression of line 52), this file assigns to it once per
\* request, in get_user, and only its ip_address: id, name and roles stay as
\* authenticate returned them (or as the anonymous values), up to and after
\* get_user's return.
C17_OnlyAddressWritten ==
    LET assignments == SelectSeq(written, AssignedHere)
    IN /\ \A i \in 1..Len(assignments) : assignments[i] = "ip_address"
       /\ Len(assignments) <= 1
       /\ Ran("get_user") => assignments = <<"ip_address">>
       /\ admitted => Len(assignments) = 1
       /\ current_user.id = issued.id
       /\ current_user.name = issued.name
       /\ current_user.roles = issued.roles
       /\ (auth_providers = <<>> /\ Ran("authenticate")) =>
             /\ issued.id = "n/a" /\ issued.name = "Anonymous"
       /\ (auth_providers # <<>> /\ issued # NoUser) => issued \in Principals

\* C17 witness: a principal with both roles has been returned by get_user with
\* an address attached, one assignment made, and everything else as issued.
C17_Witness ==
    /\ admitted
    /\ issued.roles = {"editor", "viewer"}
    /\ current_user.roles = {"editor", "viewer"}
    /\ current_user.ip_address.present
    /\ ~issued.ip_address.present
    /\ written = <<"ip_address">>

\* C18: the provider authenticate selects, and every name it passes to
\* import_module, is in settings.auth_providers; the check before the import
\* never raises its ValueError, for any configuration and any hint.
C18_SelectedProviderConfigured ==
    /\ provider # None => provider \in Range(auth_providers)
    /\ \A i \in 1..Len(imported) : imported[i] \in Range(auth_providers)
    /\ \A i \in 1..Len(validated) : validated[i].provider \in Range(auth_providers)
    /\ exc.type # "ValueError"
    /\ (Ran("authenticate") /\ provider # None) => imported = <<provider>>

\* C18 witness: two providers, a hint naming one of them, the import happened
\* and the request has ended admitted.
C18_Witness ==
    /\ Len(auth_providers) = 2
    /\ auth_provider \in Range(auth_providers)
    /\ imported = <<auth_provider>>
    /\ admitted
    /\ phase = "done"

\* C19: when xw.Book(json=book_data) raises, the handler is not called and
\* book.close() is not called for the request; book.close() is never called
\* more often than books were constructed.
C19_FailedAcquisition ==
    /\ released <= acquired
    /\ handler_calls <= 1
    /\ (Ran("get_book") /\ acquired = 0) =>
          /\ raised_by = "get_book"
          /\ handler_calls = 0
          /\ handler_result = "none"
          /\ released = 0
          /\ ~Ran("book.close")
          /\ book = "none"

\* C19 witness: the construction raised and the request has ended without a
\* handler call and without a close.
C19_Witness ==
    /\ phase = "done"
    /\ raised_by = "get_book"
    /\ book_data.ok
    /\ acquired = 0
    /\ released = 0
    /\ handler_calls = 0

\* C15: whatever the interleaving of the requests, every book is yielded only
\* to the handler of the request that constructed it and closed only by that
\* request, at most once, and exactly once by the time that request is over;
\* no two requests hold the same book.
C15_HandleOwnedByOneRequest ==
    /\ \A h \in 1..Len(handles) :
          /\ handles[h].seen_by \subseteq {handles[h].by}
          /\ \A i \in 1..Len(handles[h].closed_by) : handles[h].closed_by[i] = handles[h].by
          /\ Len(handles[h].closed_by) <= 1
          /\ frames[handles[h].by].book = h
          /\ (frames[handles[h].by].pc = "done") = (Len(handles[h].closed_by) = 1)
    /\ \A r \in Requests :
          frames[r].book # 0 =>
              /\ frames[r].book \in 1..Len(handles)
              /\ handles[frames[r].book].by = r
    /\ \A r1, r2 \in Requests :
          (r1 # r2 /\ frames[r1].book # 0) => frames[r1].book # frames[r2].book

\* C15 witness: request 2 constructed its book before request 1 did, request 1
\* was cancelled in its handler and request 2 returned, and each book has been
\* closed once, by its own request.
C15_Witness ==
    /\ Len(handles) = 2
    /\ handles[1].by = 2 /\ handles[2].by = 1
    /\ frames[1].outcome = "cancelled" /\ frames[2].outcome = "returned"
    /\ frames[1].pc = "done" /\ frames[2].pc = "done"
    /\ handles[1].closed_by = <<2>> /\ handles[2].closed_by = <<1>>
    /\ handles[2].seen_by = {1}

====
